---- MODULE Spec2Model ----
(***************************************************************************)
(* Model of fury::Status (src/fury/util/status.cc): the failure payload    *)
(* (State) owned through the raw pointer state_, its construction, copy    *)
(* and release, and the conversions between StatusCode and its canonical   *)
(* string.                                                                 *)
(*                                                                         *)
(* A std::string is a sequence of one-character strings, so that           *)
(* concatenation, length, case and white space are what they are in the    *)
(* program.  A State* is a natural number: 0 is nullptr, 1..MaxAlloc are   *)
(* the payloads in the order operator new returned them.                   *)
(***************************************************************************)
EXTENDS Integers, Sequences, FiniteSets

(* ------------------------------ bounds -------------------------------- *)
\* number of Status objects the client code holds
NObjs == 2
\* number of `new State` the run may perform
MaxAlloc == 3
\* number of threads calling the conversions concurrently
NThreads == 2

(* --------------------------- StatusCode ------------------------------- *)
\* the enumerators the tables name
OK == "OK"
OutOfMemory == "OutOfMemory"
KeyError == "KeyError"
TypeError == "TypeError"
Invalid == "Invalid"
IOError == "IOError"
UnknownError == "UnknownError"
\* a StatusCode value that is no key of code_to_str (an enumerator the table
\* does not list, or static_cast<StatusCode>(n))
OtherCode == "OtherCode"

TableCodes == {OK, OutOfMemory, KeyError, TypeError, Invalid, IOError, UnknownError}
StatusCode == TableCodes \cup {OtherCode}

(* ----------------------- canonical strings ---------------------------- *)
STATUS_CODE_OK == <<"O", "K">>
STATUS_CODE_OUT_OF_MEMORY ==
  <<"O", "u", "t", " ", "o", "f", " ", "m", "e", "m", "o", "r", "y">>
STATUS_CODE_KEY_ERROR == <<"K", "e", "y", " ", "e", "r", "r", "o", "r">>
STATUS_CODE_TYPE_ERROR == <<"T", "y", "p", "e", " ", "e", "r", "r", "o", "r">>
STATUS_CODE_INVALID == <<"I", "n", "v", "a", "l", "i", "d">>
STATUS_CODE_IO_ERROR == <<"I", "O", "E", "r", "r", "o", "r">>
STATUS_CODE_UNKNOWN_ERROR ==
  <<"U", "n", "k", "n", "o", "w", "n", " ", "e", "r", "r", "o", "r">>

(* ------------------- std::unordered_map, as used ---------------------- *)
\* The map an initializer list builds from its first n pairs: a key that
\* occurs twice keeps the first value (unordered_map::insert does not
\* overwrite).
RECURSIVE MapOf(_, _)
MapOf(list, n) ==
  IF n = 0 THEN [k \in {} |-> k]
  ELSE LET m == MapOf(list, n - 1)
           e == list[n]
       IN [k \in DOMAIN m \cup {e[1]} |-> IF k \in DOMAIN m THEN m[k] ELSE e[2]]

\* it = map.find(key); it == map.end() ? fallback : it->second
Find(map, key, fallback) == IF key \in DOMAIN map THEN map[key] ELSE fallback

\* the initializer list of the static code_to_str
code_to_str_list ==
  << <<OK, STATUS_CODE_OK>>,
     <<OutOfMemory, STATUS_CODE_OUT_OF_MEMORY>>,
     <<KeyError, STATUS_CODE_KEY_ERROR>>,
     <<TypeError, STATUS_CODE_TYPE_ERROR>>,
     <<Invalid, STATUS_CODE_INVALID>>,
     <<IOError, STATUS_CODE_IO_ERROR>>,
     <<UnknownError, STATUS_CODE_UNKNOWN_ERROR>> >>

\* str_to_code with the codes of two of its pairs exchanged
str_to_code_list_Swapped ==
  << <<STATUS_CODE_OK, OK>>,
     <<STATUS_CODE_OUT_OF_MEMORY, OutOfMemory>>,
     <<STATUS_CODE_KEY_ERROR, TypeError>>,
     <<STATUS_CODE_TYPE_ERROR, KeyError>>,
     <<STATUS_CODE_INVALID, Invalid>>,
     <<STATUS_CODE_IO_ERROR, IOError>>,
     <<STATUS_CODE_UNKNOWN_ERROR, UnknownError>> >>

\* the initializer list of the static str_to_code
str_to_code_list ==
  << <<STATUS_CODE_OK, OK>>,
     <<STATUS_CODE_OUT_OF_MEMORY, OutOfMemory>>,
     <<STATUS_CODE_KEY_ERROR, KeyError>>,
     <<STATUS_CODE_TYPE_ERROR, TypeError>>,
     <<STATUS_CODE_INVALID, Invalid>>,
     <<STATUS_CODE_IO_ERROR, IOError>>,
     <<STATUS_CODE_UNKNOWN_ERROR, UnknownError>> >>

\* the two statics once their initialisation has completed
code_to_str == MapOf(code_to_str_list, Len(code_to_str_list))
str_to_code == MapOf(str_to_code_list, Len(str_to_code_list))

(* --------------------------- input sets ------------------------------- *)
\* messages handed to the constructor by the runs that follow the payloads
Msgs == { <<>>, <<"x">> }

\* messages of the statuses handed to the conversions: empty, plain, the
\* spec's example, and ones that hold the separator or end in punctuation
ConvMsgs ==
  { <<>>, <<"x">>, <<"b", "a", "d", " ", "s", "h", "a", "p", "e">>,
    <<":", " ">>, <<"a", ":", " ", "b">>, <<"e", "n", "d", ".">> }

\* strings handed to StringToCode: the canonical ones and near misses
CanonicalInputs ==
  { STATUS_CODE_OK, STATUS_CODE_OUT_OF_MEMORY, STATUS_CODE_KEY_ERROR,
    STATUS_CODE_TYPE_ERROR, STATUS_CODE_INVALID, STATUS_CODE_IO_ERROR,
    STATUS_CODE_UNKNOWN_ERROR }
NearMissInputs ==
  { <<>>,
    <<"o", "k">>, <<"O", "k">>, <<"O", "K", " ">>, <<" ", "O", "K">>,
    <<"O">>, <<"O", "K", "K">>,
    <<"i", "o", "e", "r", "r", "o", "r">>,
    <<"I", "O", " ", "E", "r", "r", "o", "r">>,
    <<"I", "N", "V", "A", "L", "I", "D">>,
    <<"K", "e", "y", "e", "r", "r", "o", "r">>,
    <<"K", "e", "y", " ", "E", "r", "r", "o", "r">>,
    <<"U", "n", "k", "n", "o", "w", "n", " ", "e", "r", "r", "o", "r", " ">>,
    <<"U", "n", "k", "n", "o", "w", "n", "E", "r", "r", "o", "r">>,
    <<"n", "o", "t", "-", "a", "-", "r", "e", "a", "l", "-", "c", "o", "d", "e">> }
InputStrs == CanonicalInputs \cup NearMissInputs

(* ----------------------------- state ---------------------------------- *)
VARIABLES
  live,      \* the Status objects whose lifetime has begun and not ended
  state_,    \* state_[o]: the State* member of object o (0 = nullptr)
  heap,      \* heap[p]: the State operator new returned as its p-th result
  nAlloc,    \* how many State operator new has returned
  aborted,   \* the process has been terminated (assert failed, or crashed)
  uaf,       \* some State has been read after it was deleted
  ret,       \* the last call made: its arguments and what it returned
  tpc,       \* tpc[t]: where thread t is inside a conversion call
  tcall,     \* tcall[t]: the call thread t is making
  tres,      \* tres[t]: what thread t's last call returned
  statics    \* the guard and the contents of code_to_str and str_to_code

vars == <<live, state_, heap, nAlloc, aborted, uaf, ret, tpc, tcall, tres, statics>>
objVars == <<live, state_, heap, nAlloc, aborted, uaf, ret>>
threadVars == <<tpc, tcall, tres, statics>>

Objs == 1..NObjs
Ptrs == 0..MaxAlloc
Threads == 1..NThreads

(* ------------------------- the State struct --------------------------- *)
\* storage operator new has not handed out yet
Unallocated == [st |-> "unalloc", code |-> OtherCode, msg |-> <<>>, rel |-> 0]

\* new State whose code is never stored
New_DropsCode(h, n, c, m) ==
  [h EXCEPT ![n + 1] = [st |-> "live", code |-> OK, msg |-> m, rel |-> 0]]

\* new State: the next address, holding code and msg
New(h, n, c, m) ==
  [h EXCEPT ![n + 1] = [st |-> "live", code |-> c, msg |-> m, rel |-> 0]]

\* delete p: a no-op on nullptr; the State's contents are gone, and rel counts
\* how often the address has been deleted
Delete(h, p) ==
  IF p = 0 THEN h
  ELSE [h EXCEPT ![p] = [st |-> "released", code |-> OtherCode, msg |-> <<>>,
                         rel |-> IF h[p].rel < 2 THEN h[p].rel + 1 ELSE 2]]

\* what a Status whose state_ is p is, as a value: no State, or its fields
NullState == [null |-> TRUE, code |-> OK, msg |-> <<>>]
StateAt(h, p) ==
  IF p = 0 THEN NullState
  ELSE [null |-> FALSE, code |-> h[p].code, msg |-> h[p].msg]
StateOf(o) == StateAt(heap, state_[o])

(* ---------------------------- observers ------------------------------- *)
\* Status::ok(): state_ == nullptr
ok(s) == s.null

\* Status::code(): OK for a success status, else the stored code
code(s) == IF ok(s) THEN OK ELSE s.code

\* CodeAsString falling back as StringToCode does
CodeAsStringIn_IOErrorFallback(map, s) ==
  IF s.null THEN STATUS_CODE_OK
  ELSE Find(map, IF s.null THEN OK ELSE s.code, STATUS_CODE_IO_ERROR)

\* Status::CodeAsString(), looking the code up in the map `map`
CodeAsStringIn(map, s) ==
  IF s.null THEN STATUS_CODE_OK
  ELSE Find(map, code(s), STATUS_CODE_UNKNOWN_ERROR)

CodeAsString(s) == CodeAsStringIn(code_to_str, s)

\* StringToCode falling back as CodeAsString does
StringToCodeIn_UnknownFallback(map, str) == Find(map, str, UnknownError)

\* Status::StringToCode(str), looking the string up in the map `map`
StringToCodeIn(map, str) == Find(map, str, IOError)

StringToCode(str) == StringToCodeIn(str_to_code, str)

\* ToString with ":" for ": "
ToString_NoSpace(s) ==
  IF s.null THEN CodeAsStringIn(code_to_str, s)
  ELSE (CodeAsStringIn(code_to_str, s) \o <<":">>) \o s.msg

\* Status::ToString()
ToString(s) ==
  LET result == CodeAsString(s)
  IN IF s.null THEN result
     ELSE (result \o <<":", " ">>) \o s.msg

(* ------------------------ the record of a call ------------------------ *)
Ret(op, obj, s, str, outStr, outCode) ==
  [op |-> op, obj |-> obj, s |-> s, str |-> str, outStr |-> outStr, outCode |-> outCode]
NoRet == Ret("none", 0, NullState, <<>>, <<>>, OK)

(* --------------------- construction and release ----------------------- *)
\* Status(): the success status, no State
StatusOK(o) ==
  /\ ~aborted
  /\ o \notin live
  /\ live' = live \cup {o}
  /\ state_' = [state_ EXCEPT ![o] = 0]
  /\ ret' = Ret("Status()", o, NullState, <<>>, <<>>, OK)
  /\ UNCHANGED <<heap, nAlloc, aborted, uaf>>

\* the constructor without its assertion
Status_NoAssert(o, c, msg) ==
  /\ ~aborted
  /\ o \notin live
  /\ ret' = Ret("Status", o, [null |-> FALSE, code |-> c, msg |-> msg], <<>>, <<>>, OK)
  /\ nAlloc < MaxAlloc
  /\ heap' = New(heap, nAlloc, c, msg)
  /\ state_' = [state_ EXCEPT ![o] = nAlloc + 1]
  /\ nAlloc' = nAlloc + 1
  /\ live' = live \cup {o}
  /\ UNCHANGED <<aborted, uaf>>

\* Status::Status(StatusCode code, const std::string &msg)
Status(o, c, msg) ==
  /\ ~aborted
  /\ o \notin live
  /\ ret' = Ret("Status", o, [null |-> FALSE, code |-> c, msg |-> msg], <<>>, <<>>, OK)
  /\ IF c = OK
     THEN \* assert(code != StatusCode::OK) fails: abort()
          /\ aborted' = TRUE
          /\ UNCHANGED <<live, state_, heap, nAlloc, uaf>>
     ELSE /\ nAlloc < MaxAlloc
          /\ heap' = New(heap, nAlloc, c, msg)
          /\ state_' = [state_ EXCEPT ![o] = nAlloc + 1]
          /\ nAlloc' = nAlloc + 1
          /\ live' = live \cup {o}
          /\ UNCHANGED <<aborted, uaf>>

\* CopyFrom that takes the pointer instead of copying the State
CopyFrom_Shallow(d, state) ==
  /\ heap' = Delete(heap, state_[d])
  /\ state_' = [state_ EXCEPT ![d] = state]
  /\ UNCHANGED <<nAlloc, uaf, aborted>>

\* CopyFrom without `delete state_`
CopyFrom_NoDelete(d, state) ==
  IF state = 0
  THEN /\ state_' = [state_ EXCEPT ![d] = 0]
       /\ UNCHANGED <<heap, nAlloc, uaf, aborted>>
  ELSE /\ nAlloc < MaxAlloc
       /\ heap' = New(heap, nAlloc, heap[state].code, heap[state].msg)
       /\ state_' = [state_ EXCEPT ![d] = nAlloc + 1]
       /\ nAlloc' = nAlloc + 1
       /\ UNCHANGED <<uaf, aborted>>

\* void Status::CopyFrom(const State *state), on object d.  The State that
\* `state` points to is read after `delete state_`: when that delete released
\* it, the read is of released storage, and the copy holds whatever the
\* storage holds by then, or the read faults.
CopyFrom(d, state) ==
  LET h1 == Delete(heap, state_[d])
  IN IF state = 0
     THEN /\ heap' = h1
          /\ state_' = [state_ EXCEPT ![d] = 0]
          /\ UNCHANGED <<nAlloc, uaf, aborted>>
     ELSE /\ nAlloc < MaxAlloc
          /\ IF h1[state].st = "live"
             THEN /\ heap' = New(h1, nAlloc, h1[state].code, h1[state].msg)
                  /\ state_' = [state_ EXCEPT ![d] = nAlloc + 1]
                  /\ nAlloc' = nAlloc + 1
                  /\ UNCHANGED <<uaf, aborted>>
             ELSE /\ uaf' = TRUE
                  /\ \/ \E c \in StatusCode, m \in Msgs :
                          /\ heap' = New(h1, nAlloc, c, m)
                          /\ state_' = [state_ EXCEPT ![d] = nAlloc + 1]
                          /\ nAlloc' = nAlloc + 1
                          /\ UNCHANGED aborted
                     \/ /\ aborted' = TRUE
                        /\ heap' = h1
                        /\ UNCHANGED <<state_, nAlloc>>

\* Status(const Status &s): a new object d with a State of its own
CopyCtor(d, s) ==
  /\ ~aborted
  /\ d \notin live
  /\ s \in live
  /\ live' = live \cup {d}
  /\ ret' = Ret("Status(const Status&)", d, StateOf(s), <<>>, <<>>, OK)
  /\ IF state_[s] = 0
     THEN /\ state_' = [state_ EXCEPT ![d] = 0]
          /\ UNCHANGED <<heap, nAlloc>>
     ELSE /\ nAlloc < MaxAlloc
          /\ heap' = New(heap, nAlloc, heap[state_[s]].code, heap[state_[s]].msg)
          /\ state_' = [state_ EXCEPT ![d] = nAlloc + 1]
          /\ nAlloc' = nAlloc + 1
  /\ UNCHANGED <<aborted, uaf>>

\* d = s, for two objects: CopyFrom(s.state_)
Assign(d, s) ==
  /\ ~aborted
  /\ d \in live
  /\ s \in live
  /\ d # s
  /\ CopyFrom(d, state_[s])
  /\ ret' = Ret("operator=", d, StateOf(s), <<>>, <<>>, OK)
  /\ UNCHANGED live

\* ~Status(): delete state_
Destroy(o) ==
  /\ ~aborted
  /\ o \in live
  /\ live' = live \ {o}
  /\ heap' = Delete(heap, state_[o])
  /\ state_' = [state_ EXCEPT ![o] = 0]
  /\ ret' = Ret("~Status", o, StateOf(o), <<>>, <<>>, OK)
  /\ UNCHANGED <<nAlloc, aborted, uaf>>

\* CopyFrom called on d with any State* the program holds, its own included
CallCopyFrom(d, state) ==
  /\ ~aborted
  /\ d \in live
  /\ state \in {0} \cup {state_[s] : s \in live}
  /\ CopyFrom(d, state)
  /\ ret' = Ret("CopyFrom", d, StateAt(heap, state), <<>>, <<>>, OK)
  /\ UNCHANGED live

(* ------------------------ calls of the observers ---------------------- *)
\* the Status values a program can hold: the success status, and what
\* Status(code, msg) builds for a code that passes its assertion
StatusValues ==
  {NullState} \cup
  {[null |-> FALSE, code |-> c, msg |-> m] : c \in StatusCode \ {OK}, m \in ConvMsgs}

CallCodeAsString(s) ==
  /\ ret' = Ret("CodeAsString", 0, s, <<>>, CodeAsString(s), OK)
  /\ UNCHANGED <<live, state_, heap, nAlloc, aborted, uaf>>

CallToString(s) ==
  /\ ret' = Ret("ToString", 0, s, <<>>, ToString(s), OK)
  /\ UNCHANGED <<live, state_, heap, nAlloc, aborted, uaf>>

CallStringToCode(str) ==
  /\ ret' = Ret("StringToCode", 0, NullState, str, <<>>, StringToCode(str))
  /\ UNCHANGED <<live, state_, heap, nAlloc, aborted, uaf>>

(* ------------- the function-local statics, under threads -------------- *)
\* which static a call reads, and the initializer list that static has
TableOf(op) == IF op = "CodeAsString" THEN "code_to_str" ELSE "str_to_code"
ListOf(tab) == IF tab = "code_to_str" THEN code_to_str_list ELSE str_to_code_list

\* a guard that is a plain flag: set when initialisation starts, waited for
\* by nobody
StaticGuard_NoWait(g) == IF g = "uninit" THEN "init" ELSE "skip"

\* What a thread that reaches the declaration of a function-local static
\* does, by the state g of the static's guard: it runs the initializer, it
\* waits for the thread that is running it, or it goes on.
StaticGuard(g) ==
  CASE g = "uninit" -> "init"
    [] g = "busy" -> "wait"
    [] OTHER -> "skip"

\* thread t enters CodeAsString() on a status s
TCodeAsString(t, s) ==
  /\ tpc[t] = "idle"
  /\ tcall' = [tcall EXCEPT ![t] = Ret("CodeAsString", 0, s, <<>>, <<>>, OK)]
  /\ IF s.null
     THEN \* state_ == NULL: returns before the static is reached
          /\ tres' = [tres EXCEPT ![t] = Ret("CodeAsString", 0, s, <<>>, STATUS_CODE_OK, OK)]
          /\ tpc' = [tpc EXCEPT ![t] = "done"]
     ELSE /\ tpc' = [tpc EXCEPT ![t] = "decl"]
          /\ UNCHANGED tres
  /\ UNCHANGED statics

\* thread t enters StringToCode(str)
TStringToCode(t, str) ==
  /\ tpc[t] = "idle"
  /\ tcall' = [tcall EXCEPT ![t] = Ret("StringToCode", 0, NullState, str, <<>>, OK)]
  /\ tpc' = [tpc EXCEPT ![t] = "decl"]
  /\ UNCHANGED <<tres, statics>>

\* thread t reaches the declaration of the static its call uses
TDecl(t) ==
  LET tab == TableOf(tcall[t].op)
      todo == StaticGuard(statics[tab].guard)
  IN /\ tpc[t] = "decl"
     /\ todo # "wait"
     /\ IF todo = "init"
        THEN /\ statics' = [statics EXCEPT ![tab].guard = "busy"]
             /\ tpc' = [tpc EXCEPT ![t] = "init"]
        ELSE /\ tpc' = [tpc EXCEPT ![t] = "find"]
             /\ UNCHANGED statics
     /\ UNCHANGED <<tcall, tres>>

\* thread t, running the initializer, inserts the next pair of the list; the
\* guard is released after the last one
TInit(t) ==
  LET tab == TableOf(tcall[t].op)
      n == statics[tab].n + 1
  IN /\ tpc[t] = "init"
     /\ IF n = Len(ListOf(tab))
        THEN /\ statics' = [statics EXCEPT ![tab] = [guard |-> "done", n |-> n]]
             /\ tpc' = [tpc EXCEPT ![t] = "find"]
        ELSE /\ statics' = [statics EXCEPT ![tab].n = n]
             /\ UNCHANGED tpc
     /\ UNCHANGED <<tcall, tres>>

\* thread t looks its key up in the static as it is now, and returns
TFind(t) ==
  LET c == tcall[t]
      map == MapOf(ListOf(TableOf(c.op)), statics[TableOf(c.op)].n)
  IN /\ tpc[t] = "find"
     /\ tres' = [tres EXCEPT ![t] =
                   IF c.op = "CodeAsString"
                   THEN Ret(c.op, 0, c.s, c.str, CodeAsStringIn(map, c.s), OK)
                   ELSE Ret(c.op, 0, c.s, c.str, <<>>, StringToCodeIn(map, c.str))]
     /\ tpc' = [tpc EXCEPT ![t] = "done"]
     /\ UNCHANGED <<tcall, statics>>

\* thread t's caller has the result and may call again
TReturn(t) ==
  /\ tpc[t] = "done"
  /\ tpc' = [tpc EXCEPT ![t] = "idle"]
  /\ tcall' = [tcall EXCEPT ![t] = NoRet]
  /\ tres' = [tres EXCEPT ![t] = NoRet]
  /\ UNCHANGED statics

\* the statuses and strings the threads convert
ThreadStatusValues ==
  { NullState,
    [null |-> FALSE, code |-> UnknownError, msg |-> <<"x">>],
    [null |-> FALSE, code |-> OtherCode, msg |-> <<>>] }
ThreadStrs == { STATUS_CODE_OK, STATUS_CODE_UNKNOWN_ERROR, <<"o", "k">> }

(* --------------------------- specifications --------------------------- *)
Init ==
  /\ live = {}
  /\ state_ = [o \in Objs |-> 0]
  /\ heap = [p \in 1..MaxAlloc |-> Unallocated]
  /\ nAlloc = 0
  /\ aborted = FALSE
  /\ uaf = FALSE
  /\ ret = NoRet
  /\ tpc = [t \in Threads |-> "idle"]
  /\ tcall = [t \in Threads |-> NoRet]
  /\ tres = [t \in Threads |-> NoRet]
  /\ statics = [tab \in {"code_to_str", "str_to_code"} |-> [guard |-> "uninit", n |-> 0]]

\* construction, copy, assignment and destruction of Status objects
Next ==
  \/ \E o \in Objs : StatusOK(o) /\ UNCHANGED threadVars
  \/ \E o \in Objs, c \in StatusCode, m \in Msgs : Status(o, c, m) /\ UNCHANGED threadVars
  \/ \E d \in Objs, s \in Objs : CopyCtor(d, s) /\ UNCHANGED threadVars
  \/ \E d \in Objs, s \in Objs : Assign(d, s) /\ UNCHANGED threadVars
  \/ \E o \in Objs : Destroy(o) /\ UNCHANGED threadVars

Spec == Init /\ [][Next]_vars

\* the same, and CopyFrom as a function of both its arguments
NextCopyFrom ==
  \/ Next
  \/ \E d \in Objs, p \in Ptrs : CallCopyFrom(d, p) /\ UNCHANGED threadVars

SpecCopyFrom == Init /\ [][NextCopyFrom]_vars

\* the conversions, applied to every status value and input string
NextConv ==
  \/ \E s \in StatusValues : CallCodeAsString(s) /\ UNCHANGED threadVars
  \/ \E s \in StatusValues : CallToString(s) /\ UNCHANGED threadVars
  \/ \E str \in InputStrs : CallStringToCode(str) /\ UNCHANGED threadVars

SpecConv == Init /\ [][NextConv]_vars

\* threads calling the conversions, interleaved at the steps above
NextThreads ==
  \/ \E t \in Threads, s \in ThreadStatusValues : TCodeAsString(t, s) /\ UNCHANGED objVars
  \/ \E t \in Threads, str \in ThreadStrs : TStringToCode(t, str) /\ UNCHANGED objVars
  \/ \E t \in Threads : TDecl(t) /\ UNCHANGED objVars
  \/ \E t \in Threads : TInit(t) /\ UNCHANGED objVars
  \/ \E t \in Threads : TFind(t) /\ UNCHANGED objVars
  \/ \E t \in Threads : TReturn(t) /\ UNCHANGED objVars

SpecThreads == Init /\ [][NextThreads]_vars

(* ======================== the properties ============================= *)
\* The table of canonical strings as the specification prints it (spec 4.1).
CanonicalString(k) ==
  CASE k = OK -> <<"O", "K">>
    [] k = OutOfMemory -> <<"O", "u", "t", " ", "o", "f", " ", "m", "e", "m", "o", "r", "y">>
    [] k = KeyError -> <<"K", "e", "y", " ", "e", "r", "r", "o", "r">>
    [] k = TypeError -> <<"T", "y", "p", "e", " ", "e", "r", "r", "o", "r">>
    [] k = Invalid -> <<"I", "n", "v", "a", "l", "i", "d">>
    [] k = IOError -> <<"I", "O", "E", "r", "r", "o", "r">>
    [] k = UnknownError -> <<"U", "n", "k", "n", "o", "w", "n", " ", "e", "r", "r", "o", "r">>
CanonicalStrings == {CanonicalString(k) : k \in TableCodes}

\* the statuses of kind k: the success status for OK, the failures otherwise
StatusesOfKind(k) == {s \in StatusValues : code(s) = k}

\* C1: on the seven kinds the two tables are inverse to each other:
\* StringToCode of the CodeAsString of a status of kind K is K, the seven
\* strings are pairwise distinct, and each of them, decoded, gives a kind
\* whose string it is.
C1_TablesInverse ==
  /\ (ret.op = "CodeAsString" /\ code(ret.s) \in TableCodes)
       => StringToCode(ret.outStr) = code(ret.s)
  /\ (ret.op = "StringToCode" /\ ret.str \in CanonicalStrings)
       => /\ ret.outCode \in TableCodes
          /\ \A s \in StatusesOfKind(ret.outCode) : CodeAsString(s) = ret.str
  /\ \A k1, k2 \in TableCodes :
       \A s1 \in StatusesOfKind(k1), s2 \in StatusesOfKind(k2) :
         k1 # k2 => CodeAsString(s1) # CodeAsString(s2)
  /\ \A k \in TableCodes : \A s \in StatusesOfKind(k) :
       /\ CodeAsString(s) = CanonicalString(k)
       /\ StringToCode(CodeAsString(s)) = k

C1_Witness ==
  /\ ret.op = "StringToCode"
  /\ ret.str = <<"K", "e", "y", " ", "e", "r", "r", "o", "r">>
  /\ ret.outCode = KeyError

\* C2: StringToCode returns a kind for every string, and IOError for every
\* string that is not exactly one of the seven canonical strings.
C2_UnknownStringIsIOError ==
  ret.op = "StringToCode"
    => /\ ret.outCode \in TableCodes
       /\ ret.str \notin CanonicalStrings => ret.outCode = IOError

C2_Witness ==
  /\ ret.op = "StringToCode"
  /\ ret.str = <<>>
  /\ ret.outCode = IOError

\* C3: ToString of the success status is "OK" and nothing more; ToString of
\* a failure of kind K with message M is K's canonical string, then ':' and
\* ' ', then M, and nothing more.
C3_ToStringFormat ==
  ret.op = "ToString"
    => IF ret.s.null
       THEN ret.outStr = <<"O", "K">>
       ELSE ret.s.code \in TableCodes \ {OK}
              => LET k == CanonicalString(ret.s.code)
                     out == ret.outStr
                 IN /\ Len(out) = Len(k) + 2 + Len(ret.s.msg)
                    /\ SubSeq(out, 1, Len(k)) = k
                    /\ out[Len(k) + 1] = ":"
                    /\ out[Len(k) + 2] = " "
                    /\ SubSeq(out, Len(k) + 3, Len(out)) = ret.s.msg

C3_Witness ==
  /\ ret.op = "ToString"
  /\ ret.s = [null |-> FALSE, code |-> TypeError,
              msg |-> <<"b", "a", "d", " ", "s", "h", "a", "p", "e">>]
  /\ ret.outStr = <<"T", "y", "p", "e", " ", "e", "r", "r", "o", "r", ":", " ",
                    "b", "a", "d", " ", "s", "h", "a", "p", "e">>

\* C8: CodeAsString always returns a string: "OK" for the success status,
\* whatever the table holds, and "Unknown error" for a failure whose code is
\* no key of the table.
C8_CodeAsStringFallback ==
  /\ ret.op = "CodeAsString"
       => /\ ret.s.null => ret.outStr = <<"O", "K">>
          /\ (~ret.s.null /\ ret.s.code \notin DOMAIN code_to_str)
               => ret.outStr = CanonicalString(UnknownError)
          /\ ret.outStr \in CanonicalStrings
  /\ \A n \in 0..Len(code_to_str_list) :
       CodeAsStringIn(MapOf(code_to_str_list, n), NullState) = <<"O", "K">>

C8_Witness ==
  /\ ret.op = "CodeAsString"
  /\ ret.s.code = OtherCode
  /\ ~ret.s.null
  /\ ret.outStr = <<"U", "n", "k", "n", "o", "w", "n", " ", "e", "r", "r", "o", "r">>

\* the objects that hold the State at p
Owners(p) == {o \in live : state_[o] = p}

C4_Inv ==
  (ret.op = "Status" /\ ret.s.code = OK)
    => /\ aborted
       /\ ret.obj \notin live
       /\ state_[ret.obj] = 0
C4_Step ==
  (ret'.op = "Status" /\ ret'.s.code = OK)
    => /\ aborted'
       /\ UNCHANGED <<live, state_, heap, nAlloc>>

\* C4: Status(OK, msg) gives no status: the call ends the process at the
\* assertion, the object never becomes live, and no State has been allocated
\* or stored by then, whatever the message.
C4_OkFailureAborts == []C4_Inv /\ [][C4_Step]_vars

C4_Witness ==
  /\ aborted
  /\ ret.op = "Status"
  /\ ret.s.code = OK
  /\ ret.s.msg = <<"x">>
  /\ nAlloc > 0

\* C5: every status holds a State exactly when its code() is not OK, ok() is
\* true exactly when code() is OK, and no State that is held stores OK.
C5_PayloadIffNotOk ==
  /\ \A o \in live :
       /\ state_[o] # 0 <=> code(StateOf(o)) # OK
       /\ ok(StateOf(o)) <=> code(StateOf(o)) = OK
       /\ state_[o] # 0 => heap[state_[o]].st = "live"
  /\ \A p \in 1..MaxAlloc : heap[p].st = "live" => heap[p].code # OK

C5_Witness ==
  /\ ret.op = "operator="
  /\ live = Objs
  /\ state_[ret.obj] = 0
  /\ nAlloc > 0
  /\ heap[nAlloc].st = "released"

C6_Inv ==
  /\ \A a, b \in live : (a # b /\ state_[a] # 0) => state_[a] # state_[b]
  /\ \A o \in live : state_[o] # 0 => heap[state_[o]].st = "live"
  /\ ret.op \in {"Status(const Status&)", "operator="}
       => /\ ret.obj \in live
          /\ StateOf(ret.obj) = ret.s
  /\ ~uaf
C6_Step ==
  \A o \in Objs :
    (o \in live /\ o # ret'.obj)
      => /\ o \in live'
         /\ StateAt(heap', state_'[o]) = StateOf(o)
         /\ state_'[o] # 0 => heap'[state_'[o]].st = "live"

\* C6: a copy has the kind and message of its source and a State of its own
\* (or both have none), and constructing, assigning to or destroying one
\* object leaves the kind and message of every other object as they were.
C6_CopyIndependent == []C6_Inv /\ [][C6_Step]_vars

C6_Witness ==
  /\ ret.op = "~Status"
  /\ ~ret.s.null
  /\ \E o \in live : state_[o] # 0 /\ StateOf(o) = ret.s

C7_Inv ==
  \A p \in 1..MaxAlloc :
    /\ heap[p].st = "unalloc" <=> p > nAlloc
    /\ (p <= nAlloc /\ Owners(p) = {}) => heap[p].st = "released"
    /\ heap[p].rel <= 1
C7_Step ==
  (ret'.op = "operator=" /\ state_[ret'.obj] # 0)
    => /\ heap'[state_[ret'.obj]].st = "released"
       /\ state_'[ret'.obj] # state_[ret'.obj]

\* C7: an assignment releases the State the object held and installs another
\* (or none); every State that was allocated and is held by no object has
\* been released, and none has been released twice.
C7_NoLeakNoDoubleRelease == []C7_Inv /\ [][C7_Step]_vars

C7_Witness ==
  /\ ret.op = "operator="
  /\ nAlloc = 3
  /\ state_[ret.obj] = 3
  /\ heap[1].st = "released"
  /\ heap[2].st = "live"

\* C10: CopyFrom(s) leaves the object with the kind and message s had before
\* the call, for every s the program holds, the object's own State included,
\* and no State is read after its release.
C10_CopyFromAnySource ==
  /\ ~uaf
  /\ (ret.op = "CopyFrom" /\ ~aborted) => StateOf(ret.obj) = ret.s

\* what a thread's call returns when it runs alone
Alone(c) ==
  IF c.op = "CodeAsString"
  THEN Ret(c.op, 0, c.s, c.str, CodeAsString(c.s), OK)
  ELSE Ret(c.op, 0, c.s, c.str, <<>>, StringToCode(c.str))

C9_Inv ==
  \A t \in Threads :
    /\ tpc[t] = "done" => tres[t] = Alone(tcall[t])
    /\ tpc[t] = "find"
         => statics[TableOf(tcall[t].op)] =
              [guard |-> "done", n |-> Len(ListOf(TableOf(tcall[t].op)))]
C9_Step ==
  \A tab \in DOMAIN statics :
    /\ statics[tab].guard = "done" => statics'[tab] = statics[tab]
    /\ statics'[tab].n # statics[tab].n
         => \E t \in Threads : tpc[t] = "init" /\ TableOf(tcall[t].op) = tab
    /\ Cardinality({t \in Threads : tpc'[t] = "init" /\ TableOf(tcall'[t].op) = tab}) <= 1

\* C9: each static is initialised by one thread, once, and not written after
\* that; every call, concurrent first calls included, looks its key up in
\* the complete table and returns what it returns when run alone.
C9_ConcurrentCallsAgree == []C9_Inv /\ [][C9_Step]_vars

C9_Witness ==
  \E t1, t2 \in Threads :
    /\ t1 # t2
    /\ tpc[t1] = "init"
    /\ tpc[t2] = "decl"
    /\ tcall[t1].op = "CodeAsString"
    /\ tcall[t2].op = "CodeAsString"
    /\ tcall[t2].s.code = UnknownError
    /\ statics["code_to_str"] = [guard |-> "busy", n |-> 3]

====
